---- MODULE Spec2Model ----
(***************************************************************************)
(* A model of eval_harness/parser.py: the ground-truth loader, the         *)
(* structural scanner (includes, structs, functions), the dependency       *)
(* closure resolver, the name anonymizer and the record assembler; and of  *)
(* convert_to_hf_format of eval_harness/upload_to_huggingface.py, which    *)
(* reads the records the assembler writes.                                 *)
(*                                                                         *)
(* Text is kept as TLA+ strings; a character is a string of length one.    *)
(***************************************************************************)
EXTENDS Integers, Sequences, FiniteSets, TLC

VARIABLES
    \* anonymize_function_name / anonymize_function_code
    original_name, index, code, anonymized_name, anonymized_code, an_pc,
    \* extract_functions (the while loop of lines 119-163)
    lines, i, functions, sc_pc,
    \* find_referenced_structs (the while loop of lines 285-298); frs_pushed
    \* counts the texts put on to_check so far
    all_structs, to_check, seen_structs, referenced, frs_pushed, frs_pc,
    \* generate_jsonl: its arguments (the lines of issues_exp, anonymize,
    \* include_safe; the lines of test_file are the variable lines), its
    \* locals, and pos, the position of the for loop of line 376 in functions
    issues, anonymize, include_safe, bugs_by_function, includes, pos,
    function_index, examples, gen_pc,
    \* categorize_function: its argument and its result
    cat_bugs, category, cat_pc,
    \* parse_issues_exp (the for loop of lines 56-89 over the lines of
    \* issues): line_no is the number of lines read so far
    line_no, ld_pc,
    \* convert_to_hf_format (upload_to_huggingface.py) applied to the written
    \* records: the columns it returns, and whether it returned or raised
    hf_data, hf_pc

anonVars == <<original_name, index, code, anonymized_name, anonymized_code, an_pc>>
scanVars == <<lines, i, functions, sc_pc>>
frsVars == <<all_structs, to_check, seen_structs, referenced, frs_pushed, frs_pc>>
genVars == <<issues, anonymize, include_safe, bugs_by_function, includes, pos,
             function_index, examples, gen_pc>>
catVars == <<cat_bugs, category, cat_pc>>
loadVars == <<line_no, ld_pc>>
hfVars == <<hf_data, hf_pc>>
vars == <<anonVars, scanVars, frsVars, genVars, catVars, loadVars, hfVars>>

-----------------------------------------------------------------------------
(* Characters and the character classes of Python's re module (\w, \s).    *)

Letters ==
    {"a","b","c","d","e","f","g","h","i","j","k","l","m","n","o","p","q","r",
     "s","t","u","v","w","x","y","z","A","B","C","D","E","F","G","H","I","J",
     "K","L","M","N","O","P","Q","R","S","T","U","V","W","X","Y","Z"}
Digits == {"0","1","2","3","4","5","6","7","8","9"}
WordChars == Letters \cup Digits \cup {"_"}
SpaceChars == {" ", "\t", "\n", "\r", "\f"}

Ch(s, p) == SubSeq(s, p, p)
IsWordAt(s, p) == p >= 1 /\ p <= Len(s) /\ Ch(s, p) \in WordChars
IsSpaceAt(s, p) == p >= 1 /\ p <= Len(s) /\ Ch(s, p) \in SpaceChars

\* \b just before character p (p = Len(s)+1 is the end of the string).
Boundary(s, p) == IsWordAt(s, p - 1) # IsWordAt(s, p)

\* The literal lit occupies s[p .. p+Len(lit)-1].
LitAt(s, p, lit) ==
    /\ p >= 1
    /\ p + Len(lit) - 1 <= Len(s)
    /\ SubSeq(s, p, p + Len(lit) - 1) = lit

StartsWith(s, prefix) == LitAt(s, 1, prefix)
EndsWith(s, suffix) ==
    Len(suffix) <= Len(s) /\ LitAt(s, Len(s) - Len(suffix) + 1, suffix)

\* The first position >= p whose character is not in class, or Len(s)+1.
RECURSIVE SkipClass(_, _, _)
SkipClass(s, p, class) ==
    IF p <= Len(s) /\ Ch(s, p) \in class THEN SkipClass(s, p + 1, class) ELSE p

\* The last position <= p whose character is not in class, or 0.
RECURSIVE SkipClassBack(_, _, _)
SkipClassBack(s, p, class) ==
    IF p >= 1 /\ Ch(s, p) \in class THEN SkipClassBack(s, p - 1, class) ELSE p

\* str.strip()
Strip(s) ==
    LET a == SkipClass(s, 1, SpaceChars)
        b == SkipClassBack(s, Len(s), SpaceChars)
    IN  IF a > b THEN "" ELSE SubSeq(s, a, b)

\* str.count(c) for a single character c
RECURSIVE CountFrom(_, _, _)
CountFrom(s, p, c) ==
    IF p > Len(s) THEN 0
    ELSE (IF Ch(s, p) = c THEN 1 ELSE 0) + CountFrom(s, p + 1, c)
Count(s, c) == CountFrom(s, 1, c)

\* ''.join(seq) and the concatenations of all sequences over S up to length n
RECURSIVE Join(_)
Join(seq) == IF seq = <<>> THEN "" ELSE Head(seq) \o Join(Tail(seq))

SeqsUpTo(S, n) == UNION {[1..m -> S] : m \in 0..n}

-----------------------------------------------------------------------------
(* Name Anonymizer                                                         *)

hint_suffixes == <<"_bad", "_ok", "_good", "_latent">>

Digit(d) == SubSeq("0123456789", d + 1, d + 1)

\* str(n) for n >= 0
RECURSIVE Str(_)
Str(n) == IF n < 10 THEN Digit(n) ELSE Str(n \div 10) \o Digit(n % 10)

\* f"{n:03d}" for n >= 0: at least three digits, zero-padded on the left
Pad3(n) ==
    LET s == Str(n)
    IN  IF Len(s) >= 3 THEN s
        ELSE IF Len(s) = 2 THEN "0" \o s ELSE "00" \o s

StripPrefix(name) ==
    IF StartsWith(name, "FP_") THEN SubSeq(name, 4, Len(name))
    ELSE IF StartsWith(name, "FN_") THEN SubSeq(name, 4, Len(name))
    ELSE name

\* The for loop over hint_suffixes from entry k on: the first suffix the name
\* ends with is cut and the loop is left (break).
RECURSIVE StripSuffixFrom(_, _)
StripSuffixFrom(name, k) ==
    IF k > Len(hint_suffixes) THEN name
    ELSE IF EndsWith(name, hint_suffixes[k])
         THEN SubSeq(name, 1, Len(name) - Len(hint_suffixes[k]))
         ELSE StripSuffixFrom(name, k + 1)

\* A suffix loop without the break: every later suffix is tried as well.
RECURSIVE StripSuffixNoBreak(_, _)
StripSuffixNoBreak(name, k) ==
    IF k > Len(hint_suffixes) THEN name
    ELSE IF EndsWith(name, hint_suffixes[k])
         THEN StripSuffixNoBreak(SubSeq(name, 1, Len(name) - Len(hint_suffixes[k])), k + 1)
         ELSE StripSuffixNoBreak(name, k + 1)

AnonymizeNoBreak(name, idx) ==
    LET n == StripSuffixNoBreak(StripPrefix(name), 1)
    IN  IF n = "" THEN "test_function_" \o Pad3(idx) ELSE n

\* The anonymizer without the removal of the hint suffix.
AnonymizeKeepSuffix(name, idx) ==
    IF StripPrefix(name) = "" THEN "test_function_" \o Pad3(idx)
    ELSE StripPrefix(name)

anonymize_function_name(name, idx) ==
    LET n == StripSuffixFrom(StripPrefix(name), 1)
    IN  IF n = "" THEN "test_function_" \o Pad3(idx) ELSE n

\* The pattern \b<name>\b matches at position p of text.
WordMatchAt(text, p, name) ==
    /\ LitAt(text, p, name)
    /\ Boundary(text, p)
    /\ Boundary(text, p + Len(name))

\* re.sub(r'\b' + name + r'\b', repl, text): leftmost non-overlapping matches,
\* scanning from position p.  name is a non-empty identifier.
RECURSIVE ReSubFrom(_, _, _, _)
ReSubFrom(text, name, repl, p) ==
    IF p > Len(text) THEN ""
    ELSE IF WordMatchAt(text, p, name)
         THEN repl \o ReSubFrom(text, name, repl, p + Len(name))
         ELSE Ch(text, p) \o ReSubFrom(text, name, repl, p + 1)

\* A replacement that matches the name anywhere, without word boundaries.
RECURSIVE ReplaceAllFrom(_, _, _, _)
ReplaceAllFrom(text, name, repl, p) ==
    IF p > Len(text) THEN ""
    ELSE IF LitAt(text, p, name)
         THEN repl \o ReplaceAllFrom(text, name, repl, p + Len(name))
         ELSE Ch(text, p) \o ReplaceAllFrom(text, name, repl, p + 1)

\* A replacement of the first whole-word match only (re.sub with count=1).
RECURSIVE ReSubFirstFrom(_, _, _, _)
ReSubFirstFrom(text, name, repl, p) ==
    IF p > Len(text) THEN ""
    ELSE IF WordMatchAt(text, p, name)
         THEN repl \o SubSeq(text, p + Len(name), Len(text))
         ELSE Ch(text, p) \o ReSubFirstFrom(text, name, repl, p + 1)

AnonymizeCodeFirstOnly(text, name, repl) == ReSubFirstFrom(text, name, repl, 1)

AnonymizeCodeNoBoundary(text, name, repl) == ReplaceAllFrom(text, name, repl, 1)

anonymize_function_code(text, name, repl) == ReSubFrom(text, name, repl, 1)

-----------------------------------------------------------------------------
(* Structural Scanner: extract_functions                                   *)

\* The first position >= p holding character c, or 0 when there is none.
RECURSIVE Find(_, _, _)
Find(s, p, c) ==
    IF p > Len(s) THEN 0
    ELSE IF Ch(s, p) = c THEN p ELSE Find(s, p + 1, c)

\* func_pattern.match(s) for
\*   ^(\w+[\s\*]+)(\w+)\s*\([^)]*\)\s*\{
\* Each repetition is followed by a character outside its class, so the
\* greedy match is the only one.  The result is [ok, name] with name group 2.
FuncMatch(s) ==
    LET p1 == SkipClass(s, 1, WordChars)
        p2 == SkipClass(s, p1, SpaceChars \cup {"*"})
        p3 == SkipClass(s, p2, WordChars)
        p4 == SkipClass(s, p3, SpaceChars)
        p5 == Find(s, p4 + 1, ")")
        p6 == SkipClass(s, p5 + 1, SpaceChars)
    IN  IF /\ p1 > 1
           /\ p2 > p1
           /\ p3 > p2
           /\ LitAt(s, p4, "(")
           /\ p5 > 0
           /\ LitAt(s, p6, "{")
        THEN [ok |-> TRUE, name |-> SubSeq(s, p2, p3 - 1)]
        ELSE [ok |-> FALSE, name |-> ""]

\* Lines 124-128: blank lines, comments and preprocessor directives.
Skippable(line) ==
    LET s == Strip(line)
    IN  \/ s = ""
        \/ StartsWith(s, "//")
        \/ StartsWith(s, "/*")
        \/ StartsWith(s, "#")
        \/ StartsWith(s, "*/")

\* A closing test that ignores the depth: any '}' after a '{' ends the scan.
CloseAtAnyBrace(brace_count, in_function) == in_function

\* Line 150: the test made right after a '}' has lowered brace_count.
ClosesHere(brace_count, in_function) == in_function /\ brace_count = 0

\* Lines 144-152: the characters of one line from position c on.  closed
\* tells that the break of line 152 was taken.
RECURSIVE ScanChars(_, _, _, _)
ScanChars(line, c, brace_count, in_function) ==
    IF c > Len(line)
    THEN [brace_count |-> brace_count, in_function |-> in_function, closed |-> FALSE]
    ELSE IF Ch(line, c) = "{"
         THEN ScanChars(line, c + 1, brace_count + 1, TRUE)
         ELSE IF Ch(line, c) = "}"
              THEN IF ClosesHere(brace_count - 1, in_function)
                   THEN [brace_count |-> brace_count - 1,
                         in_function |-> in_function, closed |-> TRUE]
                   ELSE ScanChars(line, c + 1, brace_count - 1, in_function)
              ELSE ScanChars(line, c + 1, brace_count, in_function)

\* A search for the end that takes the end of the file when no closing
\* brace is found.
RECURSIVE FindEndOrEof(_, _, _, _, _)
FindEndOrEof(ls, k, j, brace_count, in_function) ==
    IF j >= Len(ls) THEN Len(ls)
    ELSE LET r == ScanChars(ls[j + 1], 1, brace_count, in_function)
         IN  IF r.closed THEN j + 1
             ELSE FindEndOrEof(ls, k, j + 1, r.brace_count, r.in_function)

\* Lines 139-154: end_line after the for loop over j (0-based) that starts at
\* line k; it stays k when no closing brace is found.
RECURSIVE FindEnd(_, _, _, _, _)
FindEnd(ls, k, j, brace_count, in_function) ==
    IF j >= Len(ls) THEN k
    ELSE LET r == ScanChars(ls[j + 1], 1, brace_count, in_function)
         IN  IF r.closed THEN j + 1
             ELSE IF r.in_function /\ r.brace_count = 0 THEN k
             ELSE FindEnd(ls, k, j + 1, r.brace_count, r.in_function)

\* A record numbered from 0, as the list index is.
FunctionTupleZeroBased(ls, k, name, end_line) ==
    [name |-> name, start_line |-> k, end_line |-> end_line,
     text |-> Join(SubSeq(ls, k + 1, end_line))]

\* Lines 135-136 and 157-158: the tuple appended for the function at list
\* index k (0-based) whose end is end_line (1-indexed); lines[k:end_line].
FunctionTuple(ls, k, name, end_line) ==
    [name |-> name, start_line |-> k + 1, end_line |-> end_line,
     text |-> Join(SubSeq(ls, k + 1, end_line))]

\* A scan that goes on at the line after the definition line.
ResumeNextLine(k, end_line) == k + 1

\* Line 159: where the scan goes on after a function was emitted.
ResumeAt(k, end_line) == end_line

\* Lines 121-163: one iteration of the while loop at list index k.
LoopBody(ls, k, fs) ==
    LET m == FuncMatch(Strip(ls[k + 1]))
        end_line == FindEnd(ls, k, k, 0, FALSE)
    IN  IF Skippable(ls[k + 1]) \/ ~m.ok \/ end_line <= k
        THEN [i |-> k + 1, functions |-> fs]
        ELSE [i |-> ResumeAt(k, end_line),
              functions |-> Append(fs, FunctionTuple(ls, k, m.name, end_line))]

RECURSIVE ExtractFrom(_, _, _)
ExtractFrom(ls, k, fs) ==
    IF k >= Len(ls) THEN fs
    ELSE LET r == LoopBody(ls, k, fs)
         IN  ExtractFrom(ls, r.i, r.functions)

\* extract_functions on the lines f.readlines() returns.
extract_functions(ls) == ExtractFrom(ls, 0, <<>>)

-----------------------------------------------------------------------------
(* Structural Scanner: extract_struct_definitions                          *)

\* The first position >= p at which sub occurs in s, or 0 (str.find).
RECURSIVE FindSub(_, _, _)
FindSub(s, sub, p) ==
    IF p + Len(sub) - 1 > Len(s) THEN 0
    ELSE IF LitAt(s, p, sub) THEN p ELSE FindSub(s, sub, p + 1)

\* s.split(sep) for a non-empty separator: the pieces between its
\* occurrences, found from left to right starting at position start.
RECURSIVE SplitFrom(_, _, _)
SplitFrom(s, sep, start) ==
    LET p == FindSub(s, sep, start)
    IN  IF p = 0 THEN <<SubSeq(s, start, Len(s))>>
        ELSE <<SubSeq(s, start, p - 1)>> \o SplitFrom(s, sep, p + Len(sep))
Split(s, sep) == SplitFrom(s, sep, 1)

\* sep.join(seq)
RECURSIVE JoinWith(_, _)
JoinWith(seq, sep) ==
    IF seq = <<>> THEN ""
    ELSE IF Len(seq) = 1 THEN seq[1]
    ELSE seq[1] \o sep \o JoinWith(Tail(seq), sep)

\* Lines 250-253 on the stripped line: startswith('struct '), a '{'
\* somewhere, and re.match(r'struct\s+(\w+)\s*\{').  [ok, name]
StructMatch(s) ==
    LET p2 == SkipClass(s, 7, SpaceChars)
        p3 == SkipClass(s, p2, WordChars)
        p4 == SkipClass(s, p3, SpaceChars)
    IN  IF /\ StartsWith(s, "struct ")
           /\ Find(s, 1, "{") > 0
           /\ p2 > 7
           /\ p3 > p2
           /\ LitAt(s, p4, "{")
        THEN [ok |-> TRUE, name |-> SubSeq(s, p2, p3 - 1)]
        ELSE [ok |-> FALSE, name |-> ""]

\* A search for the end that takes the opening line alone.
StructEndAtOpening(ls, j, brace_count) == j

\* Lines 260-264: the list index after the struct's last line.
RECURSIVE StructEnd(_, _, _)
StructEnd(ls, j, brace_count) ==
    IF j < Len(ls) /\ brace_count > 0
    THEN StructEnd(ls, j + 1,
                   brace_count + Count(ls[j + 1], "{") - Count(ls[j + 1], "}"))
    ELSE j

\* structs[name] = def on a dict kept as the sequence of its items: a new
\* key goes to the end, a known key keeps its place and takes the value.
DictSet(d, name, def) ==
    IF \E n \in 1..Len(d) : d[n].name = name
    THEN [n \in 1..Len(d) |->
             IF d[n].name = name THEN [name |-> name, def |-> def] ELSE d[n]]
    ELSE Append(d, [name |-> name, def |-> def])

\* Lines 245-270 from list index k (0-based) on.
RECURSIVE StructsFrom(_, _, _)
StructsFrom(ls, k, structs) ==
    IF k >= Len(ls) THEN structs
    ELSE LET line == Strip(ls[k + 1])
             m == StructMatch(line)
             j == StructEnd(ls, k + 1, Count(line, "{") - Count(line, "}"))
         IN  IF m.ok
             THEN StructsFrom(ls, j,
                      DictSet(structs, m.name, JoinWith(SubSeq(ls, k + 1, j), "\n")))
             ELSE StructsFrom(ls, k + 1, structs)

extract_struct_definitions(source_code) ==
    StructsFrom(Split(source_code, "\n"), 0, <<>>)

-----------------------------------------------------------------------------
(* Dependency Closure Resolver: find_referenced_structs                    *)

\* Line 293: \bstruct\s+<name>\b matches at position p of text.
StructRefAt(text, p, name) ==
    LET q == SkipClass(text, p + 6, SpaceChars)
    IN  /\ LitAt(text, p, "struct")
        /\ Boundary(text, p)
        /\ q > p + 6
        /\ LitAt(text, q, name)
        /\ Boundary(text, q + Len(name))

\* Line 294: re.search
StructRef(text, name) == \E p \in 1..Len(text) : StructRefAt(text, p, name)

\* A visited test that never finds a name visited.
NeverSeen(name, seen) == FALSE

\* Line 289
AlreadySeen(name, seen) == name \in seen

\* Lines 288-298: the for loop over all_structs.items() from item n on, for
\* the text current_code.  st holds to_check, seen_structs, referenced and
\* the count of texts pushed.
RECURSIVE FrsFor(_, _, _, _)
FrsFor(structs, n, current_code, st) ==
    IF n > Len(structs) THEN st
    ELSE IF \/ AlreadySeen(structs[n].name, st.seen_structs)
            \/ ~StructRef(current_code, structs[n].name)
         THEN FrsFor(structs, n + 1, current_code, st)
         ELSE FrsFor(structs, n + 1, current_code,
                  [referenced |-> Append(st.referenced, structs[n].def),
                   seen_structs |-> st.seen_structs \cup {structs[n].name},
                   to_check |-> Append(st.to_check, structs[n].def),
                   pushed |-> st.pushed + 1])

\* Lines 286-298: one iteration of the while loop.
FrsIteration(structs, st) ==
    FrsFor(structs, 1, Head(st.to_check), [st EXCEPT !.to_check = Tail(@)])

RECURSIVE FrsRun(_, _)
FrsRun(structs, st) ==
    IF st.to_check = <<>> THEN st.referenced
    ELSE FrsRun(structs, FrsIteration(structs, st))

\* Lines 281-283
FrsStart(text) ==
    [referenced |-> <<>>, to_check |-> <<text>>, seen_structs |-> {}, pushed |-> 1]

find_referenced_structs(text, structs) == FrsRun(structs, FrsStart(text))

-----------------------------------------------------------------------------
(* Ground-Truth Loader: parse_issues_exp                                   *)

\* The last position <= p holding character c, or 0 (str.rfind).
RECURSIVE FindLast(_, _, _)
FindLast(s, p, c) ==
    IF p < 1 THEN 0
    ELSE IF Ch(s, p) = c THEN p ELSE FindLast(s, p - 1, c)

\* s with every "_" removed.
RECURSIVE DropUnderscores(_)
DropUnderscores(s) ==
    IF s = "" THEN ""
    ELSE (IF Ch(s, 1) = "_" THEN "" ELSE Ch(s, 1))
             \o DropUnderscores(SubSeq(s, 2, Len(s)))

DigitValue(c) == CHOOSE d \in 0..9 : Digit(d) = c
RECURSIVE Decimal(_)
Decimal(s) ==
    IF s = "" THEN 0
    ELSE 10 * Decimal(SubSeq(s, 1, Len(s) - 1)) + DigitValue(Ch(s, Len(s)))

\* int(s): surrounding whitespace, an optional sign, decimal digits with
\* single underscores between them.  ok is FALSE where int raises ValueError.
ParseInt(s) ==
    LET t == Strip(s)
        signed == StartsWith(t, "-") \/ StartsWith(t, "+")
        body == IF signed THEN SubSeq(t, 2, Len(t)) ELSE t
        wellFormed ==
            /\ body # ""
            /\ \A p \in 1..Len(body) : Ch(body, p) \in Digits \cup {"_"}
            /\ Ch(body, 1) # "_"
            /\ Ch(body, Len(body)) # "_"
            /\ FindSub(body, "__", 1) = 0
    IN  IF wellFormed
        THEN [ok |-> TRUE,
              value |-> IF StartsWith(t, "-")
                        THEN 0 - Decimal(DropUnderscores(body))
                        ELSE Decimal(DropUnderscores(body))]
        ELSE [ok |-> FALSE, value |-> 0]

\* Lines 72-77: the text between the first '[' at or after the first
\* occurrence of severity and the last ']'.
Trace(line, severity) ==
    LET trace_start == Find(line, FindSub(line, severity, 1), "[")
        trace_end == FindLast(line, Len(line), "]")
    IN  IF trace_start # 0 /\ trace_end # 0
        THEN SubSeq(line, trace_start + 1, trace_end - 1)
        ELSE ""

\* Lines 79-85
Bug(line, parts) ==
    [bug_type |-> parts[4],
     line_offset |-> ParseInt(parts[3]).value,
     absolute_line |-> -1,
     severity |-> parts[6],
     trace |-> Trace(line, parts[6])]

\* Lines 87-89 on a dict kept as a function from its keys.
AppendBug(d, name, bug) ==
    [n \in DOMAIN d \cup {name} |->
        IF n = name
        THEN Append(IF name \in DOMAIN d THEN d[name] ELSE <<>>, bug)
        ELSE d[n]]

\* Lines 57-64: the line is passed over (continue).
Skipped(raw) == Strip(raw) = "" \/ Len(Split(Strip(raw), ", ")) < 6

\* Line 68: int(parts[2]) raises ValueError.
OffsetRaises(raw) == ~ParseInt(Split(Strip(raw), ", ")[3]).ok

\* Lines 66-89 for a line that is neither passed over nor raises.
Loaded(raw, d) ==
    LET line == Strip(raw)
        parts == Split(line, ", ")
    IN  AppendBug(d, parts[2], Bug(line, parts))

\* Lines 56-89 from line n of the file on; ok is FALSE when int() raised.
RECURSIVE ParseFrom(_, _, _)
ParseFrom(file, n, d) ==
    IF n > Len(file) THEN [ok |-> TRUE, bugs_by_function |-> d]
    ELSE IF Skipped(file[n]) THEN ParseFrom(file, n + 1, d)
    ELSE IF OffsetRaises(file[n]) THEN [ok |-> FALSE, bugs_by_function |-> d]
    ELSE ParseFrom(file, n + 1, Loaded(file[n], d))

parse_issues_exp(file) == ParseFrom(file, 1, <<>>)

-----------------------------------------------------------------------------
(* Structural Scanner: extract_includes                                    *)

RECURSIVE IncludesFrom(_, _)
IncludesFrom(ls, n) ==
    IF n > Len(ls) THEN <<>>
    ELSE (IF StartsWith(Strip(ls[n]), "#include") THEN <<Strip(ls[n])>> ELSE <<>>)
             \o IncludesFrom(ls, n + 1)

\* An extraction that keeps each include line as it stands in the file.
RECURSIVE IncludesVerbatimFrom(_, _)
IncludesVerbatimFrom(ls, n) ==
    IF n > Len(ls) THEN <<>>
    ELSE (IF StartsWith(Strip(ls[n]), "#include") THEN <<ls[n]>> ELSE <<>>)
             \o IncludesVerbatimFrom(ls, n + 1)

ExtractIncludesVerbatim(source_code) ==
    IncludesVerbatimFrom(Split(source_code, "\n"), 1)

extract_includes(source_code) == IncludesFrom(Split(source_code, "\n"), 1)

-----------------------------------------------------------------------------
(* Dependency Closure Resolver: extract_dependencies, get_dependency_code  *)

\* The name followed by optional whitespace and '(' anywhere, also inside a
\* longer identifier.
CallAtNoBoundary(text, p, name) ==
    /\ LitAt(text, p, name)
    /\ LitAt(text, SkipClass(text, p + Len(name), SpaceChars), "(")

\* Line 312: \b<name>\s*\( matches at position p of text.
CallAt(text, p, name) ==
    /\ LitAt(text, p, name)
    /\ Boundary(text, p)
    /\ LitAt(text, SkipClass(text, p + Len(name), SpaceChars), "(")

\* Line 313: re.search
Calls(text, name) == \E p \in 1..Len(text) : CallAt(text, p, name)

\* Lines 310-314 from entry n of all_functions on.
RECURSIVE DependenciesFrom(_, _, _)
DependenciesFrom(text, all_functions, n) ==
    IF n > Len(all_functions) THEN <<>>
    ELSE (IF Calls(text, all_functions[n]) THEN <<all_functions[n]>> ELSE <<>>)
             \o DependenciesFrom(text, all_functions, n + 1)

extract_dependencies(text, all_functions) ==
    DependenciesFrom(text, all_functions, 1)

\* SelectSeq with a two-place test
RECURSIVE Without(_, _)
Without(seq, x) ==
    IF seq = <<>> THEN <<>>
    ELSE (IF Head(seq) = x THEN <<>> ELSE <<Head(seq)>>) \o Without(Tail(seq), x)

\* Line 330: {name: code for ...}: the code of the last tuple of that name.
FuncDict(fs, name) ==
    LET last == CHOOSE n \in 1..Len(fs) :
                    /\ fs[n].name = name
                    /\ \A m \in (n + 1)..Len(fs) : fs[m].name # name
    IN  fs[last].text

\* Lines 329-336
RECURSIVE get_dependency_code(_, _)
get_dependency_code(dep_names, fs) ==
    IF dep_names = <<>> THEN <<>>
    ELSE (IF \E n \in 1..Len(fs) : fs[n].name = Head(dep_names)
          THEN <<FuncDict(fs, Head(dep_names))>> ELSE <<>>)
             \o get_dependency_code(Tail(dep_names), fs)

-----------------------------------------------------------------------------
(* Record Assembler: categorize_function and the body of generate_jsonl    *)

BugTypes(bugs) == {bugs[n].bug_type : n \in 1..Len(bugs)}

\* A categorizer that tests for a memory leak first.
CategorizeLeakFirst(bugs) ==
    IF bugs = <<>> THEN "safe"
    ELSE IF {"MEMORY_LEAK", "MEMORY_LEAK_C"} \cap BugTypes(bugs) # {} THEN "memory_leak"
    ELSE IF "NULLPTR_DEREFERENCE" \in BugTypes(bugs) THEN "nullptr_dereference"
    ELSE "other"

\* A categorizer without the test of line 217.
CategorizeNoSafe(bugs) ==
    IF "NULLPTR_DEREFERENCE" \in BugTypes(bugs) THEN "nullptr_dereference" ELSE "other"

categorize_function(bugs) ==
    IF bugs = <<>> THEN "safe"
    ELSE IF "NULLPTR_DEREFERENCE" \in BugTypes(bugs) THEN "nullptr_dereference"
    ELSE IF {"MEMORY_LEAK", "MEMORY_LEAK_C"} \cap BugTypes(bugs) # {} THEN "memory_leak"
    ELSE IF "USE_AFTER_FREE" \in BugTypes(bugs) THEN "use_after_free"
    ELSE IF {"UNINITIALIZED_VALUE", "PULSE_UNINITIALIZED_VALUE"} \cap BugTypes(bugs) # {}
         THEN "uninitialized_value"
    ELSE IF {"RESOURCE_LEAK", "PULSE_RESOURCE_LEAK"} \cap BugTypes(bugs) # {}
         THEN "resource_leak"
    ELSE "other"

\* A test for the FN_ prefix alone.
HintPrefixedFNOnly(name) == StartsWith(name, "FN_")

\* Line 378
HintPrefixed(name) == StartsWith(name, "FP_") \/ StartsWith(name, "FN_")

\* An absolute line left at its parse-time value.
AbsoluteLineUnfilled(start_line, line_offset) == -1

\* Line 386
AbsoluteLine(start_line, line_offset) == start_line + line_offset

\* Lines 385-386: the Bug objects of one function after the update.
FillAbsoluteLines(bugs, start_line) ==
    [n \in 1..Len(bugs) |->
        [bugs[n] EXCEPT !.absolute_line = AbsoluteLine(start_line, bugs[n].line_offset)]]

\* Lines 408-412: the struct definitions of the function text followed by
\* those of each dependency text.
RECURSIVE StructDefsOfDeps(_, _)
StructDefsOfDeps(dep_code, structs) ==
    IF dep_code = <<>> THEN <<>>
    ELSE find_referenced_structs(Head(dep_code), structs)
             \o StructDefsOfDeps(Tail(dep_code), structs)

\* Lines 414-420: duplicates removed, order kept.
RECURSIVE Unique(_, _)
Unique(seq, seen) ==
    IF seq = <<>> THEN <<>>
    ELSE IF Head(seq) \in seen THEN Unique(Tail(seq), seen)
    ELSE <<Head(seq)>> \o Unique(Tail(seq), seen \cup {Head(seq)})

\* os.path.basename and the path relative to the grandparent directory
\* (line 370), for a plain relative path of at least two components.
Basename(path) == LET c == Split(path, "/") IN c[Len(c)]
SourceFile(path) ==
    LET c == Split(path, "/")
    IN  IF Len(c) >= 2 THEN c[Len(c) - 1] \o "/" \o c[Len(c)] ELSE c[Len(c)]

\* Lines 392-462: the FunctionInfo built for the function tuple f, whose
\* Bug objects (absolute lines filled) are bugs.  dep_names is the local of
\* line 402, kept beside the fields of FunctionInfo.
Example(f, bugs, fs, structs, incl, anon, fidx, path) ==
    LET anonymized_name_ ==
            IF anon THEN anonymize_function_name(f.name, fidx) ELSE f.name
        anonymized_code_ ==
            IF anon THEN anonymize_function_code(f.text, f.name, anonymized_name_)
            ELSE f.text
        all_function_names == [n \in 1..Len(fs) |-> fs[n].name]
        dep_names == Without(extract_dependencies(f.text, all_function_names), f.name)
        dep_code == get_dependency_code(dep_names, fs)
        struct_defs == find_referenced_structs(f.text, structs)
                           \o StructDefsOfDeps(dep_code, structs)
    IN  [id |-> ReplaceAllFrom(Basename(path), ".c", "", 1) \o "_" \o Pad3(fidx),
         source_file |-> SourceFile(path),
         original_function_name |-> f.name,
         anonymized_function_name |-> anonymized_name_,
         function_code |-> anonymized_code_,
         includes |-> incl \o Unique(struct_defs, {}),
         dependencies |-> dep_code,
         ground_truth |->
             [has_bug |-> Len(bugs) > 0,
              bugs |-> [n \in 1..Len(bugs) |->
                          [bug_type |-> bugs[n].bug_type,
                           line_offset |-> bugs[n].line_offset,
                           absolute_line |-> bugs[n].absolute_line,
                           severity |-> bugs[n].severity,
                           trace |-> bugs[n].trace]]],
         metadata |->
             [requires_interprocedural |-> Len(dep_names) > 0,
              category |-> categorize_function(bugs),
              start_line |-> f.start_line,
              end_line |-> f.end_line],
         dep_names |-> dep_names]

-----------------------------------------------------------------------------
(* Bounds and input sets                                                   *)

MaxSuffixes == 2
MaxPieces == 3
MaxIndex == 2
MaxLines == 4
MaxStructLines == 3
MaxSrcLines == 4
MaxBugs == 3
MaxIssueLines == 3

\* Function names are identifiers (group 2 of func_pattern is \w+): hint
\* prefixes, a descriptive stem and hint suffixes, each possibly absent or,
\* for the hints, repeated.
NamePrefixes == {"", "FP_", "FN_", "FP_FN_"}
NameStems == {"", "x"}
NameSuffixes == {"_bad", "_ok", "_good", "_latent"}
Names ==
    {pre \o stem \o Join(q) :
        pre \in NamePrefixes, stem \in NameStems,
        q \in SeqsUpTo(NameSuffixes, MaxSuffixes)} \ {""}

\* Function texts around a name: the name itself, a longer identifier that
\* contains it, and separators.
CodePieces(name) == {name, "x" \o name, "("}
Codes(name) == {Join(q) : q \in SeqsUpTo(CodePieces(name), MaxPieces)}

\* Source lines as readlines() yields them, each with its line end.
ScanLines ==
    {"int f(void) {\n",
     "}\n",
     "int g(int x) { return x; }\n",
     "  if (x) { x = 0;\n",
     "} }\n",
     "// c\n",
     "\n",
     "static int s(void) {\n"}

-----------------------------------------------------------------------------
(* extract_functions, one loop iteration per step                          *)

AnonIdle ==
    /\ original_name = ""
    /\ index = 0
    /\ code = ""
    /\ anonymized_name = ""
    /\ anonymized_code = ""
    /\ an_pc = "idle"

ScanIdle ==
    /\ lines = <<>>
    /\ i = 0
    /\ functions = <<>>
    /\ sc_pc = "idle"

FrsIdle ==
    /\ all_structs = <<>>
    /\ to_check = <<>>
    /\ seen_structs = {}
    /\ referenced = <<>>
    /\ frs_pushed = 0
    /\ frs_pc = "idle"

CatIdle ==
    /\ cat_bugs = <<>>
    /\ category = ""
    /\ cat_pc = "idle"

LoadIdle ==
    /\ line_no = 0
    /\ ld_pc = "idle"

HfIdle ==
    /\ hf_data = <<>>
    /\ hf_pc = "idle"

GenIdle ==
    /\ issues = <<>>
    /\ anonymize = FALSE
    /\ include_safe = FALSE
    /\ bugs_by_function = <<>>
    /\ includes = <<>>
    /\ pos = 0
    /\ function_index = 0
    /\ examples = <<>>
    /\ gen_pc = "idle"

ScanInit ==
    /\ lines \in SeqsUpTo(ScanLines, MaxLines)
    /\ i = 0
    /\ functions = <<>>
    /\ sc_pc = "scan"
    /\ AnonIdle
    /\ FrsIdle
    /\ GenIdle
    /\ CatIdle
    /\ HfIdle
    /\ LoadIdle

ScanTaken ==
    /\ i' = LoopBody(lines, i, functions).i
    /\ functions' = LoopBody(lines, i, functions).functions
    /\ UNCHANGED <<lines, sc_pc, anonVars, frsVars, genVars, catVars, loadVars, hfVars>>

\* Lines 124-130
SkipLine ==
    /\ sc_pc = "scan"
    /\ i < Len(lines)
    /\ Skippable(lines[i + 1])
    /\ ScanTaken

\* Lines 162-163
NoMatch ==
    /\ sc_pc = "scan"
    /\ i < Len(lines)
    /\ ~Skippable(lines[i + 1])
    /\ ~FuncMatch(Strip(lines[i + 1])).ok
    /\ ScanTaken

\* Lines 134-159
EmitFunction ==
    /\ sc_pc = "scan"
    /\ i < Len(lines)
    /\ ~Skippable(lines[i + 1])
    /\ FuncMatch(Strip(lines[i + 1])).ok
    /\ FindEnd(lines, i, i, 0, FALSE) > i
    /\ ScanTaken

\* Lines 160-161
Unclosed ==
    /\ sc_pc = "scan"
    /\ i < Len(lines)
    /\ ~Skippable(lines[i + 1])
    /\ FuncMatch(Strip(lines[i + 1])).ok
    /\ FindEnd(lines, i, i, 0, FALSE) <= i
    /\ ScanTaken

\* Line 165
ScanReturn ==
    /\ sc_pc = "scan"
    /\ i >= Len(lines)
    /\ sc_pc' = "done"
    /\ UNCHANGED <<lines, i, functions, anonVars, frsVars, genVars, catVars, loadVars, hfVars>>

ScanNext == SkipLine \/ NoMatch \/ EmitFunction \/ Unclosed \/ ScanReturn

SpecScan == ScanInit /\ [][ScanNext]_vars

Emitted == {functions[n] : n \in 1..Len(functions)}
Balance(s) == Count(s, "{") - Count(s, "}")

\* C1: every emitted function has end_line >= start_line and its text is
\* the concatenation of the source lines start_line..end_line (1-indexed,
\* both included), nothing added, dropped or altered.
C1_VerbatimLineRange ==
    \A f \in Emitted :
        /\ f.start_line >= 1
        /\ f.end_line >= f.start_line
        /\ f.end_line <= Len(lines)
        /\ f.text = Join([n \in 1..(f.end_line - f.start_line + 1) |->
                              lines[f.start_line + n - 1]])

\* A function of several lines has been emitted.
C1_Witness ==
    \E f \in Emitted : f.end_line > f.start_line /\ f.start_line > 1

\* C2 as stated: in every emitted text the '{' and the '}' are equal in number.
C2_BraceBalanceWholeText ==
    \A f \in Emitted : Balance(f.text) = 0

\* C2, amended: every emitted text holds, on its last line, a '}' up to
\* and including which the '{' and the '}' are equal in number, and no
\* earlier '}' of the text closes the first '{'; the whole text is balanced
\* whenever no brace follows that '}'.
C2_BalancedThroughClosingBrace ==
    \A f \in Emitted :
        \E q \in 1..Len(f.text) :
            /\ Ch(f.text, q) = "}"
            /\ q > Len(f.text) - Len(lines[f.end_line])
            /\ Balance(SubSeq(f.text, 1, q)) = 0
            /\ \A r \in 1..(q - 1) :
                  Ch(f.text, r) = "}" /\ Count(SubSeq(f.text, 1, r), "{") > 0
                      => Balance(SubSeq(f.text, 1, r)) # 0
            /\ Balance(SubSeq(f.text, q + 1, Len(f.text))) = 0
                  => Balance(f.text) = 0

\* A function with nested braces whose closing line holds a further brace.
C2_Witness ==
    \E f \in Emitted :
        /\ Count(f.text, "{") >= 2
        /\ Balance(f.text) # 0

\* C3: emitted functions follow each other without overlap, and the line
\* the scan examines next lies after every emitted function.
C3_ForwardNonOverlapping ==
    /\ \A n \in 1..(Len(functions) - 1) :
          functions[n + 1].start_line > functions[n].end_line
    /\ sc_pc = "scan" => \A f \in Emitted : i + 1 > f.end_line

\* Two functions were emitted, and a line inside the first one's body
\* matches the definition pattern without having been extracted.
C3_Witness ==
    /\ Len(functions) = 2
    /\ \E n \in (functions[1].start_line + 1)..functions[1].end_line :
          FuncMatch(Strip(lines[n])).ok

\* The brace depth of text returns to zero: some '}' has as many '{' as
\* '}' up to and including itself.
ReturnsToZero(text) ==
    \E p \in 1..Len(text) :
        /\ Ch(text, p) = "}"
        /\ Count(SubSeq(text, 1, p), "{") > 0
        /\ Balance(SubSeq(text, 1, p)) = 0

\* The line at list index k matches the definition pattern and the depth
\* does not return to zero from it to the end of the file.
UnclosedAt(k) ==
    /\ FuncMatch(Strip(lines[k + 1])).ok
    /\ ~ReturnsToZero(Join(SubSeq(lines, k + 1, Len(lines))))

\* C16: an iteration at a line that matches the definition pattern while
\* the brace depth never returns to zero before the end of the file emits
\* nothing and moves to the very next line, where the scan goes on.
C16_UnclosedAdvancesOneLine ==
    [][(sc_pc = "scan" /\ i < Len(lines) /\ UnclosedAt(i)) =>
          /\ i' = i + 1
          /\ functions' = functions
          /\ sc_pc' = "scan"]_vars

\* The scan has ended after it passed an unclosed definition line and
\* emitted the function defined on the line right after it.
C16_Witness ==
    /\ sc_pc = "done"
    /\ \E k \in 0..(Len(lines) - 2) :
          /\ UnclosedAt(k)
          /\ \E f \in Emitted : f.start_line = k + 2

\* The groups of a return type: from position p of s, words that are each
\* followed by whitespace or stars, up to the word that stands before the
\* parenthesis.  count is the number of groups passed so far; the result
\* holds the bounds of that last word and the number of groups before it.
RECURSIVE ReturnTypeGroups(_, _, _)
ReturnTypeGroups(s, p, count) ==
    LET w == SkipClass(s, p, WordChars)
        q == SkipClass(s, w, SpaceChars \cup {"*"})
    IN  IF w = p THEN [ok |-> FALSE, from |-> 0, to |-> 0, groups |-> 0]
        ELSE IF LitAt(s, SkipClass(s, w, SpaceChars), "(")
             THEN [ok |-> count >= 1, from |-> p, to |-> w - 1, groups |-> count]
             ELSE IF q > w THEN ReturnTypeGroups(s, q, count + 1)
             ELSE [ok |-> FALSE, from |-> 0, to |-> 0, groups |-> 0]

\* s is a candidate definition line: one or more groups of a word followed
\* by whitespace or stars, an identifier, a parenthesized parameter list
\* and an opening brace.
CandidateDefinition(s) ==
    LET g == ReturnTypeGroups(s, 1, 0)
        open == SkipClass(s, g.to + 1, SpaceChars)
        close == Find(s, open + 1, ")")
    IN  [ok |-> /\ g.ok
                /\ close > 0
                /\ LitAt(s, SkipClass(s, close + 1, SpaceChars), "{"),
         name |-> IF g.ok THEN SubSeq(s, g.from, g.to) ELSE "",
         groups |-> g.groups]

\* C17: an iteration at a candidate definition line whose return type has
\* more than one group and whose braces close appends a function that
\* starts at that line and has the name of the identifier directly before
\* the parameter list.
C17_MultiWordReturnTypeEmitted ==
    [][(/\ sc_pc = "scan"
        /\ i < Len(lines)
        /\ CandidateDefinition(Strip(lines[i + 1])).ok
        /\ CandidateDefinition(Strip(lines[i + 1])).groups > 1
        /\ ReturnsToZero(Join(SubSeq(lines, i + 1, Len(lines)))))
       => /\ Len(functions') = Len(functions) + 1
          /\ functions'[Len(functions')].name =
                 CandidateDefinition(Strip(lines[i + 1])).name
          /\ functions'[Len(functions')].start_line = i + 1]_vars

-----------------------------------------------------------------------------
(* find_referenced_structs, one iteration of the while loop per step       *)

\* Source lines that define structs: two that refer to each other, one that
\* refers to itself, and one that spans two lines.
StructSrcLines ==
    {"struct A { struct B *b; };\n",
     "struct B { struct A *a; };\n",
     "struct N { struct N *next; };\n",
     "struct C {\n",
     "  struct N *n; };\n"}

FrsCodes ==
    {"struct A x;", "struct  C c; struct N *n;", "mystruct B; structA; struct Bx;"}

FrsInit ==
    /\ \E src \in SeqsUpTo(StructSrcLines, MaxStructLines) :
          all_structs = extract_struct_definitions(Join(src))
    /\ \E text \in FrsCodes :
          /\ to_check = FrsStart(text).to_check
          /\ seen_structs = FrsStart(text).seen_structs
          /\ referenced = FrsStart(text).referenced
          /\ frs_pushed = FrsStart(text).pushed
    /\ frs_pc = "loop"
    /\ AnonIdle
    /\ ScanIdle
    /\ GenIdle
    /\ CatIdle
    /\ HfIdle
    /\ LoadIdle

\* Lines 285-298
FrsStep ==
    /\ frs_pc = "loop"
    /\ to_check # <<>>
    /\ LET st == FrsIteration(all_structs,
                     [referenced |-> referenced, to_check |-> to_check,
                      seen_structs |-> seen_structs, pushed |-> frs_pushed])
       IN  /\ to_check' = st.to_check
           /\ seen_structs' = st.seen_structs
           /\ referenced' = st.referenced
           /\ frs_pushed' = st.pushed
    /\ UNCHANGED <<all_structs, frs_pc, anonVars, scanVars, genVars, catVars, loadVars, hfVars>>

\* Line 300
FrsReturn ==
    /\ frs_pc = "loop"
    /\ to_check = <<>>
    /\ frs_pc' = "done"
    /\ UNCHANGED <<all_structs, to_check, seen_structs, referenced, frs_pushed,
                   anonVars, scanVars, genVars, catVars, loadVars, hfVars>>

FrsNext == FrsStep \/ FrsReturn

\* The loop is sequential code: a step that can be taken is taken.
SpecClosure == FrsInit /\ [][FrsNext]_vars /\ WF_vars(FrsNext)

StructNames == {all_structs[n].name : n \in 1..Len(all_structs)}

\* C5: find_referenced_structs returns for every text and struct table,
\* cyclic ones included; each struct name is marked visited at most once
\* and with it one definition is appended to the result and one text to
\* the frontier, which so receives at most 1 + (number of structs) texts.
C5_TerminatesVisitingOnce ==
    /\ [](/\ seen_structs \subseteq StructNames
          /\ Len(referenced) = Cardinality(seen_structs)
          /\ frs_pushed = 1 + Cardinality(seen_structs)
          /\ frs_pushed <= 1 + Cardinality(StructNames))
    /\ (frs_pc = "loop" ~> frs_pc = "done")

\* The call has returned on a table in which two visited structs refer to
\* each other.
C5_Witness ==
    /\ frs_pc = "done"
    /\ \E a, b \in 1..Len(all_structs) :
          /\ a # b
          /\ {all_structs[a].name, all_structs[b].name} \subseteq seen_structs
          /\ StructRef(all_structs[a].def, all_structs[b].name)
          /\ StructRef(all_structs[b].def, all_structs[a].name)

-----------------------------------------------------------------------------
(* generate_jsonl: parse, scan, then one function of the for loop per step *)

test_file == "c/pulse/t.c"

\* Lines of a test file: a struct that refers to itself, two functions of
\* one name (as the branches of an #ifdef give) of which the first uses the
\* struct, a function that calls them, and a function with a hint prefix.
SourceLines ==
    {"struct S { struct S *n; };\n",
     "int helper(struct S *p) { return helper(p); }\n",
     "int helper(int v) { return xcalc_bad(v); }\n",
     "int calc_bad(int *p) { return helper (p) + FP_run(p); }\n",
     "int FP_run(struct S *s) { return 0; }\n",
     "int FN_run(int v) { return 0; }\n"}

\* issues.exp files: none, annotations (also for a prefixed function and a
\* short line), one whose line offset is not a number, and one that
\* annotates a single function.
IssueFiles ==
    {<<>>,
     <<"c/pulse/t.c, calc_bad, 2, NULLPTR_DEREFERENCE, B1, ERROR, [a,b]\n",
       "\n",
       "c/pulse/t.c, FP_run, 1, USE_AFTER_FREE, B1, ERROR, []\n",
       "short, line\n",
       "c/pulse/t.c, calc_bad, -3, MEMORY_LEAK_C, B1, WARNING, [x]\n",
       "c/pulse/o.c, helper, 0, DEAD_STORE, B2, ERROR, [y]\n">>,
     <<"c/pulse/t.c, calc_bad, two, NULLPTR_DEREFERENCE, B1, ERROR, []\n">>,
     <<"c/pulse/t.c, calc_bad, 1, RESOURCE_LEAK, B1, ERROR, [r]\n">>}

\* Test files: up to MaxSrcLines of the lines, each at most once, in any
\* order.
Sources ==
    {q \in SeqsUpTo(SourceLines, MaxSrcLines) :
        \A a, b \in 1..Len(q) : a # b => q[a] # q[b]}

\* The state on entry to line 355: issues_exp has been parsed (line 353),
\* or int() of line 68 has raised ValueError and the run has ended.
GenInit ==
    /\ issues \in IssueFiles
    /\ bugs_by_function = parse_issues_exp(issues).bugs_by_function
    /\ gen_pc = IF parse_issues_exp(issues).ok THEN "scan" ELSE "raised"
    /\ lines \in Sources
    /\ anonymize \in BOOLEAN
    /\ include_safe \in BOOLEAN
    /\ includes = <<>>
    /\ all_structs = <<>>
    /\ functions = <<>>
    /\ pos = 0
    /\ function_index = 0
    /\ examples = <<>>
    /\ i = 0
    /\ sc_pc = "idle"
    /\ to_check = <<>>
    /\ seen_structs = {}
    /\ referenced = <<>>
    /\ frs_pushed = 0
    /\ frs_pc = "idle"
    /\ AnonIdle
    /\ CatIdle
    /\ HfIdle
    /\ LoadIdle

genFixed == <<lines, issues, anonymize, include_safe, i, sc_pc, to_check,
              seen_structs, referenced, frs_pushed, frs_pc, anonVars, catVars,
              loadVars, hfVars>>

\* Lines 355-374
GenScan ==
    /\ gen_pc = "scan"
    /\ includes' = extract_includes(Join(lines))
    /\ all_structs' = extract_struct_definitions(Join(lines))
    /\ functions' = extract_functions(lines)
    /\ pos' = 1
    /\ function_index' = 1
    /\ gen_pc' = "loop"
    /\ UNCHANGED <<bugs_by_function, examples, genFixed>>

\* Line 382
BugsOf(name) ==
    IF name \in DOMAIN bugs_by_function THEN bugs_by_function[name] ELSE <<>>

\* Lines 378-379
GenSkipHint ==
    /\ gen_pc = "loop"
    /\ pos <= Len(functions)
    /\ HintPrefixed(functions[pos].name)
    /\ pos' = pos + 1
    /\ UNCHANGED <<bugs_by_function, includes, all_structs, functions,
                   function_index, examples, gen_pc, genFixed>>

\* Lines 381-390: no Bug object to update, and the function is left out.
GenSkipSafe ==
    /\ gen_pc = "loop"
    /\ pos <= Len(functions)
    /\ ~HintPrefixed(functions[pos].name)
    /\ ~include_safe /\ BugsOf(functions[pos].name) = <<>>
    /\ pos' = pos + 1
    /\ UNCHANGED <<bugs_by_function, includes, all_structs, functions,
                   function_index, examples, gen_pc, genFixed>>

\* Lines 381-465: the Bug objects of the function are updated in place and
\* the example is built from them.
GenEmit ==
    /\ gen_pc = "loop"
    /\ pos <= Len(functions)
    /\ ~HintPrefixed(functions[pos].name)
    /\ include_safe \/ BugsOf(functions[pos].name) # <<>>
    /\ LET f == functions[pos]
           bugs == FillAbsoluteLines(BugsOf(f.name), f.start_line)
       IN  /\ bugs_by_function' =
                  IF f.name \in DOMAIN bugs_by_function
                  THEN [bugs_by_function EXCEPT ![f.name] = bugs]
                  ELSE bugs_by_function
           /\ examples' = Append(examples,
                  Example(f, bugs, functions, all_structs, includes,
                          anonymize, function_index, test_file))
    /\ function_index' = function_index + 1
    /\ pos' = pos + 1
    /\ UNCHANGED <<includes, all_structs, functions, gen_pc, genFixed>>

\* Lines 467-471: the examples are written out.
GenWrite ==
    /\ gen_pc = "loop"
    /\ pos > Len(functions)
    /\ gen_pc' = "done"
    /\ UNCHANGED <<bugs_by_function, includes, all_structs, functions, pos,
                   function_index, examples, genFixed>>

GenNext ==
    \/ GenScan
    \/ GenSkipHint \/ GenSkipSafe \/ GenEmit \/ GenWrite

SpecGen == GenInit /\ [][GenNext]_vars

Examples == {examples[m] : m \in 1..Len(examples)}

\* The function tuple an example was built from.
TupleOf(ex) == CHOOSE f \in Emitted : f.start_line = ex.metadata.start_line
Range(seq) == {seq[m] : m \in 1..Len(seq)}
Structs == Range(all_structs)

\* The struct names reachable from a set of names through the definitions
\* in the struct table.
RECURSIVE ReachableStructs(_)
ReachableStructs(names) ==
    LET more == {e.name : e \in {d \in Structs :
                     \E v \in Structs : v.name \in names /\ StructRef(v.def, d.name)}}
    IN  IF more \subseteq names THEN names ELSE ReachableStructs(names \cup more)

\* The texts a function's context has to cover: its own and that of every
\* other extracted function, of another name, it holds a call site of.
ContextTexts(a) ==
    {a.text} \cup {b.text : b \in {f \in Emitted : f.name # a.name /\ Calls(a.text, f.name)}}

\* C4: the context (includes) of every example holds the definition of
\* every struct of the table that the function's text or the text of a
\* function it calls refers to, and of every struct reachable from those
\* through struct definitions.
C4_ClosureComplete ==
    \A ex \in Examples :
        LET direct == {d.name : d \in {e \in Structs :
                          \E t \in ContextTexts(TupleOf(ex)) : StructRef(t, e.name)}}
        IN  \A d \in Structs :
                d.name \in ReachableStructs(direct) => d.def \in Range(ex.includes)

\* name stands in text as a whole identifier followed by optional white
\* space and an opening parenthesis.
CalledAsWord(text, name) ==
    \E p \in 1..Len(text) :
        /\ IsWordAt(text, p) /\ ~IsWordAt(text, p - 1)
        /\ SubSeq(text, p, SkipClass(text, p, WordChars) - 1) = name
        /\ LET q == SkipClass(text, SkipClass(text, p, WordChars), SpaceChars)
           IN  q <= Len(text) /\ Ch(text, q) = "("

\* C6: the direct dependencies of every example are exactly the names of
\* the extracted functions, other than its own, that stand in its text as a
\* whole identifier followed by optional whitespace and '('.
C6_DirectDependencies ==
    \A ex \in Examples :
        /\ Range(ex.dep_names) =
              {f.name : f \in {g \in Emitted :
                  /\ g.name # ex.original_function_name
                  /\ CalledAsWord(TupleOf(ex).text, g.name)}}
        /\ ex.metadata.requires_interprocedural = (Range(ex.dep_names) # {})

\* An example whose text holds the name of another extracted function
\* before a parenthesis, but only inside a longer identifier, and an example
\* of a function that calls itself.
C6_Witness ==
    /\ \E ex \in Examples : \E f \in Emitted :
          /\ f.name # ex.original_function_name
          /\ FindSub(TupleOf(ex).text, f.name \o "(", 1) > 0
          /\ f.name \notin Range(ex.dep_names)
    /\ \E ex \in Examples :
          /\ Calls(TupleOf(ex).text, ex.original_function_name)
          /\ ex.original_function_name \notin Range(ex.dep_names)

\* C7: in every example the absolute line of every defect is the
\* function's start line plus the defect's line offset; it is -1 only when
\* that sum is -1.
C7_AbsoluteLine ==
    \A ex \in Examples :
        \A b \in Range(ex.ground_truth.bugs) :
            /\ b.absolute_line = ex.metadata.start_line + b.line_offset
            /\ b.absolute_line = -1 => ex.metadata.start_line + b.line_offset = -1

\* An example of a function that does not start the file, with a defect
\* whose sum is -1 and a defect whose sum is positive.
C7_Witness ==
    \E ex \in Examples :
        /\ ex.metadata.start_line = 2
        /\ \E b \in Range(ex.ground_truth.bugs) :
              b.line_offset = -3 /\ b.absolute_line = -1
        /\ \E b \in Range(ex.ground_truth.bugs) :
              b.line_offset = 2 /\ b.absolute_line = 4

\* C8: no example has an original function name that starts with FP_ or
\* with FN_.
C8_NoHintPrefixedExample ==
    \A ex \in Examples :
        /\ ~StartsWith(ex.original_function_name, "FP_")
        /\ ~StartsWith(ex.original_function_name, "FN_")

\* A finished run over a file with an FP_ function that has an annotation,
\* an FN_ function that has none, and a function that made an example.
C8_Witness ==
    /\ gen_pc = "done"
    /\ examples # <<>>
    /\ \E f \in Emitted :
          StartsWith(f.name, "FP_") /\ f.name \in DOMAIN bugs_by_function
    /\ \E f \in Emitted :
          StartsWith(f.name, "FN_") /\ f.name \notin DOMAIN bugs_by_function

\* The annotation file has a line of at least six fields whose second
\* field is name.
Annotated(name) ==
    \E n \in 1..Len(issues) :
        LET parts == Split(Strip(issues[n]), ", ")
        IN  Len(parts) >= 6 /\ parts[2] = name

\* C12: in every example has_bug is false exactly when bugs is empty and
\* exactly when the category is "safe"; a function without an annotation
\* line for its name has has_bug false, no bugs and the category "safe".
C12_SafeIndicatorsAgree ==
    \A ex \in Examples :
        /\ (ex.ground_truth.has_bug = FALSE) <=> (ex.ground_truth.bugs = <<>>)
        /\ (ex.ground_truth.bugs = <<>>) <=> (ex.metadata.category = "safe")
        /\ ~Annotated(ex.original_function_name) =>
              /\ ex.ground_truth.has_bug = FALSE
              /\ ex.ground_truth.bugs = <<>>
              /\ ex.metadata.category = "safe"

\* A run over a non-empty annotation file that made an example of a
\* function without annotation line and an example of a function with one.
C12_Witness ==
    /\ issues # <<>>
    /\ \E ex \in Examples :
          /\ ~Annotated(ex.original_function_name)
          /\ ex.metadata.category = "safe"
    /\ \E ex \in Examples :
          /\ Annotated(ex.original_function_name)
          /\ ex.ground_truth.has_bug
          /\ ex.metadata.category # "safe"

\* The annotation line raw is for the file being processed: the file name
\* in its first field is that of test_file.
ForTestFile(raw) ==
    Basename(Split(Strip(raw), ", ")[1]) = Basename(test_file)

\* The defect b of function name is the one the annotation line raw gives.
DefectFromLine(b, name, raw) ==
    LET parts == Split(Strip(raw), ", ")
    IN  /\ Len(parts) >= 6
        /\ parts[2] = name
        /\ b.bug_type = parts[4]
        /\ ParseInt(parts[3]).ok
        /\ b.line_offset = ParseInt(parts[3]).value
        /\ b.severity = parts[6]

\* C20: every defect of every example is given by an annotation line for
\* the example's function whose file field names the file being processed.
C20_DefectsFromOwnFile ==
    \A ex \in Examples :
        \A b \in Range(ex.ground_truth.bugs) :
            \E n \in 1..Len(issues) :
                /\ DefectFromLine(b, ex.original_function_name, issues[n])
                /\ ForTestFile(issues[n])

\* The functions of the test file whose names carry the FP_ or FN_ prefix.
HintPrefixedFunctions ==
    {f \in Emitted : StartsWith(f.name, "FP_") \/ StartsWith(f.name, "FN_")}

\* The texts an example carries: its code, its dependencies, its includes.
OutputTexts(ex) ==
    {ex.function_code} \cup Range(ex.dependencies) \cup Range(ex.includes)

\* C21: the text of a function whose name starts with FP_ or FN_ occurs in
\* no text of any example, the dependencies of its callers included.
C21_HintPrefixedTextAbsent ==
    \A ex \in Examples :
        \A f \in HintPrefixedFunctions :
            \A t \in OutputTexts(ex) : FindSub(t, f.text, 1) = 0

-----------------------------------------------------------------------------
(* generate_jsonl on test files with include lines and multi-line structs  *)

\* Lines of a test file: an include line, an indented include line with
\* trailing blanks, a struct over three lines with a named struct inside,
\* a function that uses the struct and a prefixed function.
CtxLines ==
    {"#include <a.h>\n",
     "\t#include <b.h>  \n",
     "struct A {\n",
     "  struct B { int x; } b;\n",
     "};\n",
     "int f(struct A *a) { return 0; }\n",
     "int FP_g(struct B *b) { return 0; }\n"}

CtxSources ==
    {q \in SeqsUpTo(CtxLines, MaxSrcLines) :
        \A a, b \in 1..Len(q) : a # b => q[a] # q[b]}

\* The state on entry to line 355 with an empty issues.exp.
CtxInit ==
    /\ issues = <<>>
    /\ bugs_by_function = parse_issues_exp(issues).bugs_by_function
    /\ gen_pc = "scan"
    /\ lines \in CtxSources
    /\ anonymize \in BOOLEAN
    /\ include_safe \in BOOLEAN
    /\ includes = <<>>
    /\ all_structs = <<>>
    /\ functions = <<>>
    /\ pos = 0
    /\ function_index = 0
    /\ examples = <<>>
    /\ i = 0
    /\ sc_pc = "idle"
    /\ to_check = <<>>
    /\ seen_structs = {}
    /\ referenced = <<>>
    /\ frs_pushed = 0
    /\ frs_pc = "idle"
    /\ AnonIdle
    /\ CatIdle
    /\ HfIdle
    /\ LoadIdle

SpecContext == CtxInit /\ [][GenNext]_vars

\* A line of the file without its line terminator.
Chomp(line) == IF EndsWith(line, "\n") THEN SubSeq(line, 1, Len(line) - 1) ELSE line

IsIncludeLine(line) == StartsWith(Strip(line), "#include")
IncludeLines == SelectSeq(lines, IsIncludeLine)

\* Every example's context starts with the include entries and holds only
\* struct definitions after them.
IncludesLeadContext ==
    \A ex \in Examples :
        /\ Len(ex.includes) >= Len(includes)
        /\ SubSeq(ex.includes, 1, Len(includes)) = includes
        /\ \A m \in (Len(includes) + 1)..Len(ex.includes) :
               \E d \in Structs : d.def = ex.includes[m]

\* C18 as stated: the include entries are, in file order, the lines whose
\* stripped form starts with #include, each as it stands in the file, and
\* they lead every example's context.
C18_IncludesVerbatim ==
    gen_pc \in {"loop", "done"} =>
        /\ includes = [m \in 1..Len(IncludeLines) |-> Chomp(IncludeLines[m])]
        /\ IncludesLeadContext

\* C18: the include entries are, in file order, the lines whose stripped
\* form starts with #include, each without its leading and trailing
\* whitespace, and they lead every example's context, before any struct
\* definition.
C18_IncludesStripped ==
    gen_pc \in {"loop", "done"} =>
        /\ includes = [m \in 1..Len(IncludeLines) |-> Strip(IncludeLines[m])]
        /\ IncludesLeadContext

\* An example whose context is an include entry, taken from an indented
\* line, followed by a struct definition.
C18_Witness ==
    /\ gen_pc = "done"
    /\ includes = <<"#include <b.h>">>
    /\ \E ex \in Examples :
          /\ Len(ex.includes) = 2
          /\ ex.includes[1] = "#include <b.h>"
          /\ \E d \in Structs : d.def = ex.includes[2]

\* The lines of the file as source_code.split('\n') gives them: without
\* terminators, and an empty piece after the last terminator.
SrcLines == [m \in 1..Len(lines) |-> Chomp(lines[m])] \o <<"">>

\* Line k opens a struct; the depth after the lines k..j; the first line
\* from k on at which the depth is no longer positive, or the last line.
Opens(k) == StructMatch(Strip(SrcLines[k])).ok
OpenedName(k) == StructMatch(Strip(SrcLines[k])).name
DepthOver(k, j) == Balance(JoinWith(SubSeq(SrcLines, k, j), "\n"))
LastLineOf(k) ==
    IF \E j \in k..Len(SrcLines) : DepthOver(k, j) <= 0
    THEN CHOOSE j \in k..Len(SrcLines) :
             /\ DepthOver(k, j) <= 0
             /\ \A h \in k..(j - 1) : DepthOver(k, h) > 0
    ELSE Len(SrcLines)

\* The lines examined as a possible opening from line k on: k itself, then
\* the line after it when it opens nothing, and the line after the last
\* line of its struct when it opens one.
RECURSIVE ExaminedFrom(_)
ExaminedFrom(k) ==
    IF k > Len(SrcLines) THEN {}
    ELSE {k} \cup ExaminedFrom((IF Opens(k) THEN LastLineOf(k) ELSE k) + 1)

\* C19: the struct table has an entry exactly for the names opened at
\* examined lines; the value of an entry is the original lines from the
\* opening line (the last one of that name) through the first line at which
\* the depth is no longer positive, or through the end of the file, joined
\* by newlines; a line inside a struct is not examined, so a struct named
\* only there has no entry.
C19_StructTable ==
    gen_pc = "done" =>
        LET openings == {k \in ExaminedFrom(1) : Opens(k)}
            names == {d.name : d \in Structs}
        IN  /\ names = {OpenedName(k) : k \in openings}
            /\ \A d \in Structs :
                  LET k == CHOOSE o \in openings :
                               /\ OpenedName(o) = d.name
                               /\ \A h \in openings :
                                      OpenedName(h) = d.name => h <= o
                  IN  d.def = JoinWith(SubSeq(SrcLines, k, LastLineOf(k)), "\n")
            /\ \A k \in 1..Len(SrcLines) :
                  (/\ Opens(k)
                   /\ \E o \in openings : o < k /\ k <= LastLineOf(o)
                   /\ \A o \in openings : OpenedName(o) # OpenedName(k))
                  => OpenedName(k) \notin names

\* A file whose struct A spans three lines and holds the named struct B:
\* the table has A with its three lines and nothing for B.
C19_Witness ==
    /\ gen_pc = "done"
    /\ Structs = {[name |-> "A",
                   def |-> "struct A {\n  struct B { int x; } b;\n};"]}
    /\ \E k \in 1..Len(SrcLines) : Opens(k) /\ OpenedName(k) = "B"

-----------------------------------------------------------------------------
(* convert_to_hf_format applied to the records generate_jsonl has written  *)

\* The keys convert_to_hf_format reads from a record (lines 76-82), from its
\* ground truth (lines 85-89), from a defect (lines 90-94) and from its
\* metadata (lines 103-108), in the order it reads them.
ExampleKeys ==
    <<"id", "source_file", "original_function_name",
      "anonymized_function_name", "function_code", "includes",
      "dependencies">>

GroundTruthKeys == <<"has_bug", "bugs">>

BugKeys == <<"bug_type", "line_offset", "absolute_line", "severity", "trace">>

MetadataKeys ==
    <<"category", "difficulty", "requires_interprocedural", "start_line",
      "end_line">>

\* The first of keys[k..] that is no key of the dictionary d, "" when d has
\* them all: the key a subscript d[key] raises KeyError for.
RECURSIVE FirstMissing(_, _, _)
FirstMissing(keys, d, k) ==
    IF k > Len(keys) THEN ""
    ELSE IF keys[k] \in DOMAIN d THEN FirstMissing(keys, d, k + 1)
    ELSE keys[k]

\* The first key of the defects bs[k..] that is missing.
RECURSIVE FirstMissingOfBugs(_, _)
FirstMissingOfBugs(bs, k) ==
    IF k > Len(bs) THEN ""
    ELSE IF FirstMissing(BugKeys, bs[k], 1) # ""
         THEN FirstMissing(BugKeys, bs[k], 1)
         ELSE FirstMissingOfBugs(bs, k + 1)

\* One iteration of the loop of lines 75-108: the key whose read raises
\* KeyError for the record ex, "" when the iteration completes.
KeyErrorOf(ex) ==
    IF FirstMissing(ExampleKeys, ex, 1) # ""
    THEN FirstMissing(ExampleKeys, ex, 1)
    ELSE IF "ground_truth" \notin DOMAIN ex THEN "ground_truth"
    ELSE IF FirstMissing(GroundTruthKeys, ex.ground_truth, 1) # ""
    THEN FirstMissing(GroundTruthKeys, ex.ground_truth, 1)
    ELSE IF FirstMissingOfBugs(ex.ground_truth.bugs, 1) # ""
    THEN FirstMissingOfBugs(ex.ground_truth.bugs, 1)
    ELSE IF "metadata" \notin DOMAIN ex THEN "metadata"
    ELSE FirstMissing(MetadataKeys, ex.metadata, 1)

\* The key the conversion of exs[k..] raises KeyError for, "" when none.
RECURSIVE KeyErrorFrom(_, _)
KeyErrorFrom(exs, k) ==
    IF k > Len(exs) THEN ""
    ELSE IF KeyErrorOf(exs[k]) # "" THEN KeyErrorOf(exs[k])
    ELSE KeyErrorFrom(exs, k + 1)

\* A column of the result: one entry per record.
Column(exs, key) == [n \in 1..Len(exs) |-> exs[n][key]]
GroundTruthColumn(exs, key) == [n \in 1..Len(exs) |-> exs[n].ground_truth[key]]
MetadataColumn(exs, key) == [n \in 1..Len(exs) |-> exs[n].metadata[key]]
BugColumn(exs, key) ==
    [n \in 1..Len(exs) |->
        [m \in 1..Len(exs[n].ground_truth.bugs) |->
            exs[n].ground_truth.bugs[m][key]]]

\* Lines 44-110: the columns, or the key of the KeyError that ends the call.
convert_to_hf_format(exs) ==
    IF KeyErrorFrom(exs, 1) # ""
    THEN [key_error |-> KeyErrorFrom(exs, 1), hf_data |-> <<>>]
    ELSE [key_error |-> "",
          hf_data |->
            [id |-> Column(exs, "id"),
             source_file |-> Column(exs, "source_file"),
             original_function_name |-> Column(exs, "original_function_name"),
             anonymized_function_name |->
                 Column(exs, "anonymized_function_name"),
             function_code |-> Column(exs, "function_code"),
             includes |-> Column(exs, "includes"),
             dependencies |-> Column(exs, "dependencies"),
             has_bug |-> GroundTruthColumn(exs, "has_bug"),
             bug_types |-> BugColumn(exs, "bug_type"),
             bug_line_offsets |-> BugColumn(exs, "line_offset"),
             bug_absolute_lines |-> BugColumn(exs, "absolute_line"),
             bug_severities |-> BugColumn(exs, "severity"),
             bug_traces |-> BugColumn(exs, "trace"),
             category |-> MetadataColumn(exs, "category"),
             difficulty |-> MetadataColumn(exs, "difficulty"),
             requires_interprocedural |->
                 MetadataColumn(exs, "requires_interprocedural"),
             start_line |-> MetadataColumn(exs, "start_line"),
             end_line |-> MetadataColumn(exs, "end_line")]]

\* Lines of a test file whose function names differ only in their hint
\* suffix, a name that is a hint suffix alone, the name the anonymizer
\* generates for the first record, and a function with a hint prefix.
PairLines ==
    {"int calc_bad(int *p) { return *p; }\n",
     "int calc_ok(int *p) { return 0; }\n",
     "int calc(int *p) { return calc_ok(p); }\n",
     "int _bad(void) { return 0; }\n",
     "int test_function_001(void) { return 0; }\n",
     "int FP_calc(int *p) { return 0; }\n"}

PairSources ==
    {q \in SeqsUpTo(PairLines, MaxSrcLines) :
        \A a, b \in 1..Len(q) : a # b => q[a] # q[b]}

PairIssueFiles ==
    {<<>>,
     <<"c/pulse/t.c, calc_bad, 0, NULLPTR_DEREFERENCE, B1, ERROR, [deref]\n">>}

DatasetInit ==
    /\ issues \in PairIssueFiles
    /\ bugs_by_function = parse_issues_exp(issues).bugs_by_function
    /\ gen_pc = "scan"
    /\ lines \in PairSources
    /\ anonymize \in BOOLEAN
    /\ include_safe \in BOOLEAN
    /\ includes = <<>>
    /\ all_structs = <<>>
    /\ functions = <<>>
    /\ pos = 0
    /\ function_index = 0
    /\ examples = <<>>
    /\ i = 0
    /\ sc_pc = "idle"
    /\ to_check = <<>>
    /\ seen_structs = {}
    /\ referenced = <<>>
    /\ frs_pushed = 0
    /\ frs_pc = "idle"
    /\ AnonIdle
    /\ CatIdle
    /\ HfIdle
    /\ LoadIdle

\* upload_to_huggingface.py on the file generate_jsonl wrote: load_jsonl
\* gives back the records, convert_to_hf_format returns or raises.
ConvertToHf ==
    /\ gen_pc = "done"
    /\ hf_pc = "idle"
    /\ hf_data' = convert_to_hf_format(examples).hf_data
    /\ hf_pc' = IF convert_to_hf_format(examples).key_error = ""
                THEN "returned" ELSE "raised"
    /\ UNCHANGED <<anonVars, scanVars, frsVars, genVars, catVars, loadVars>>

DatasetNext == GenNext \/ ConvertToHf

SpecDataset == DatasetInit /\ [][DatasetNext]_vars

\* A name without the one hint suffix it ends with, if it ends with one.
Core(name) ==
    IF \E s \in Range(hint_suffixes) : EndsWith(name, s)
    THEN LET s == CHOOSE t \in Range(hint_suffixes) : EndsWith(name, t)
         IN  SubSeq(name, 1, Len(name) - Len(s))
    ELSE name

\* The name the m-th record is known by once its hint suffix is gone: the
\* rest of the name, or the generated name when nothing is left of it.
Label(m) ==
    IF Core(examples[m].original_function_name) = ""
    THEN "test_function_" \o Pad3(m)
    ELSE Core(examples[m].original_function_name)

\* Two records with different original names and one anonymized name.
SameAnonymizedName(m, n) ==
    /\ examples[m].original_function_name # examples[n].original_function_name
    /\ examples[m].anonymized_function_name
           = examples[n].anonymized_function_name

\* C22 as stated: with anonymize enabled, two records with different
\* original function names never have the same anonymized function name.
C22_AnonymizedNamesDistinct ==
    anonymize =>
        \A m, n \in 1..Len(examples) : ~SameAnonymizedName(m, n)

\* C22: with anonymize enabled the ids of the records are pairwise distinct,
\* and two records with different original names have the same anonymized
\* name exactly when the names are equal once the hint suffix of each is
\* removed (a name that is a hint suffix alone counting as the generated
\* name test_function_NNN of its record).
C22_SameNameIffSameCore ==
    anonymize =>
        \A m, n \in 1..Len(examples) :
            /\ m # n => examples[m].id # examples[n].id
            /\ examples[m].original_function_name
                   # examples[n].original_function_name
               => (examples[m].anonymized_function_name
                       = examples[n].anonymized_function_name
                   <=> Label(m) = Label(n))

C22_Witness ==
    /\ anonymize
    /\ hf_pc = "idle"
    /\ \E m, n \in 1..Len(examples) :
           /\ SameAnonymizedName(m, n)
           /\ EndsWith(examples[m].original_function_name, "_bad")
           /\ EndsWith(examples[n].original_function_name, "_ok")

\* C23: converting the records generate_jsonl wrote never fails on a
\* missing key: every key convert_to_hf_format reads is in every record.
C23_ConversionNeverRaises ==
    hf_pc # "idle" =>
        /\ hf_pc = "returned"
        /\ \A ex \in Examples : KeyErrorOf(ex) = ""

-----------------------------------------------------------------------------
(* parse_issues_exp, one line of the file per step                         *)

\* Lines of an issues.exp file: three annotations (two for one function,
\* one with a comma in its trace), a blank line, a line of five fields and
\* an annotation whose line offset is not a number.
IssueLines ==
    {"c/pulse/t.c, f, 2, NULLPTR_DEREFERENCE, B1, ERROR, [a]\n",
     "c/pulse/t.c, g, 1, MEMORY_LEAK_C, B1, ERROR, []\n",
     "c/pulse/t.c, f, -1, USE_AFTER_FREE, B1, WARNING, [b, c]\n",
     "  \n",
     "c/pulse/t.c, f, 2, NULLPTR_DEREFERENCE, B1\n",
     "c/pulse/t.c, g, two, NULLPTR_DEREFERENCE, B1, ERROR, []\n"}

loadFixed == <<issues, anonymize, include_safe, includes, pos, function_index,
               examples, gen_pc, anonVars, scanVars, frsVars, catVars, hfVars>>

LoadInit ==
    /\ issues \in SeqsUpTo(IssueLines, MaxIssueLines)
    /\ bugs_by_function = <<>>
    /\ line_no = 0
    /\ ld_pc = "loop"
    /\ anonymize = FALSE
    /\ include_safe = FALSE
    /\ includes = <<>>
    /\ pos = 0
    /\ function_index = 0
    /\ examples = <<>>
    /\ gen_pc = "idle"
    /\ AnonIdle
    /\ ScanIdle
    /\ FrsIdle
    /\ CatIdle
    /\ HfIdle

\* Lines 57-64
LoadSkip ==
    /\ ld_pc = "loop"
    /\ line_no < Len(issues)
    /\ Skipped(issues[line_no + 1])
    /\ line_no' = line_no + 1
    /\ UNCHANGED <<bugs_by_function, ld_pc, loadFixed>>

\* Lines 66-89
LoadAppend ==
    /\ ld_pc = "loop"
    /\ line_no < Len(issues)
    /\ ~Skipped(issues[line_no + 1])
    /\ ~OffsetRaises(issues[line_no + 1])
    /\ bugs_by_function' = Loaded(issues[line_no + 1], bugs_by_function)
    /\ line_no' = line_no + 1
    /\ UNCHANGED <<ld_pc, loadFixed>>

\* Line 68: the ValueError of int() leaves parse_issues_exp.
LoadRaise ==
    /\ ld_pc = "loop"
    /\ line_no < Len(issues)
    /\ ~Skipped(issues[line_no + 1])
    /\ OffsetRaises(issues[line_no + 1])
    /\ ld_pc' = "raised"
    /\ UNCHANGED <<bugs_by_function, line_no, loadFixed>>

\* Line 91
LoadReturn ==
    /\ ld_pc = "loop"
    /\ line_no = Len(issues)
    /\ ld_pc' = "done"
    /\ UNCHANGED <<bugs_by_function, line_no, loadFixed>>

LoadNext == LoadSkip \/ LoadAppend \/ LoadRaise \/ LoadReturn

SpecLoad == LoadInit /\ [][LoadNext]_vars

\* The fields of a stripped line.
Fields(raw) == Split(Strip(raw), ", ")
Blank(raw) == \A p \in 1..Len(raw) : Ch(raw, p) \in SpaceChars

\* The defects listed for name, none when it has no entry.
DefectsOf(d, name) == IF name \in DOMAIN d THEN d[name] ELSE <<>>

\* C14: the load never ends on a line, whatever the line holds; when it has
\* ended, every line of at least six fields with an integer line offset
\* has its defect in the list of its function.
C14_NeverAborts ==
    /\ ld_pc # "raised"
    /\ ld_pc \in {"done", "raised"} =>
          \A n \in 1..Len(issues) :
              (/\ ~Blank(issues[n])
               /\ Len(Fields(issues[n])) >= 6
               /\ ParseInt(Fields(issues[n])[3]).ok)
              => \E k \in 1..Len(DefectsOf(bugs_by_function, Fields(issues[n])[2])) :
                    LET b == DefectsOf(bugs_by_function, Fields(issues[n])[2])[k]
                    IN  /\ b.bug_type = Fields(issues[n])[4]
                        /\ b.line_offset = ParseInt(Fields(issues[n])[3]).value
                        /\ b.severity = Fields(issues[n])[6]

\* C15: a step over a blank line or a line of fewer than six fields leaves
\* the mapping as it is and goes on to the next line; a step over any other
\* line appends one defect to the list of the function named in the second
\* field, leaves every other list as it is, and goes on to the next line.
C15_SkipOrAppendOne ==
    [][(ld_pc = "loop" /\ line_no < Len(issues)) =>
          LET raw == issues[line_no + 1]
              name == Fields(raw)[2]
          IN  /\ ld_pc' = "loop"
              /\ line_no' = line_no + 1
              /\ IF Blank(raw) \/ Len(Fields(raw)) < 6
                 THEN bugs_by_function' = bugs_by_function
                 ELSE /\ DOMAIN bugs_by_function' = DOMAIN bugs_by_function \cup {name}
                      /\ Len(bugs_by_function'[name]) =
                             Len(DefectsOf(bugs_by_function, name)) + 1
                      /\ SubSeq(bugs_by_function'[name], 1,
                                Len(DefectsOf(bugs_by_function, name)))
                             = DefectsOf(bugs_by_function, name)
                      /\ \A other \in DOMAIN bugs_by_function \ {name} :
                             bugs_by_function'[other] = bugs_by_function[other]
      ]_vars

-----------------------------------------------------------------------------
(* categorize_function applied to a list of Bug objects                    *)

\* The defect kinds categorize_function knows and one it does not.
KnownBugTypes ==
    {"NULLPTR_DEREFERENCE", "MEMORY_LEAK", "MEMORY_LEAK_C", "USE_AFTER_FREE",
     "UNINITIALIZED_VALUE", "PULSE_UNINITIALIZED_VALUE", "RESOURCE_LEAK",
     "PULSE_RESOURCE_LEAK"}
SomeBugTypes == KnownBugTypes \cup {"DEAD_STORE"}

BugOfType(t) ==
    [bug_type |-> t, line_offset |-> 0, absolute_line |-> -1,
     severity |-> "ERROR", trace |-> ""]

CatInit ==
    /\ \E types \in SeqsUpTo(SomeBugTypes, MaxBugs) :
          cat_bugs = [n \in 1..Len(types) |-> BugOfType(types[n])]
    /\ category = ""
    /\ cat_pc = "start"
    /\ AnonIdle
    /\ ScanIdle
    /\ FrsIdle
    /\ GenIdle
    /\ LoadIdle
    /\ HfIdle

Categorize ==
    /\ cat_pc = "start"
    /\ category' = categorize_function(cat_bugs)
    /\ cat_pc' = "done"
    /\ UNCHANGED <<cat_bugs, anonVars, scanVars, frsVars, genVars, loadVars, hfVars>>

CatNext == Categorize

SpecCat == CatInit /\ [][CatNext]_vars

\* The preference order: the kinds of each rank and the label of the rank.
Preference ==
    <<[kinds |-> {"NULLPTR_DEREFERENCE"}, label |-> "nullptr_dereference"],
      [kinds |-> {"MEMORY_LEAK", "MEMORY_LEAK_C"}, label |-> "memory_leak"],
      [kinds |-> {"USE_AFTER_FREE"}, label |-> "use_after_free"],
      [kinds |-> {"UNINITIALIZED_VALUE", "PULSE_UNINITIALIZED_VALUE"},
       label |-> "uninitialized_value"],
      [kinds |-> {"RESOURCE_LEAK", "PULSE_RESOURCE_LEAK"}, label |-> "resource_leak"]>>

KindsListed == {cat_bugs[n].bug_type : n \in 1..Len(cat_bugs)}

\* C13: for a non-empty defect list the category is the label of the first
\* rank of the preference order of which a kind is listed, whatever the
\* order of the list, and "other" when no rank has a kind listed.
C13_FirstMatchInPreferenceOrder ==
    (cat_pc = "done" /\ cat_bugs # <<>>) =>
        IF \E k \in 1..Len(Preference) : Preference[k].kinds \cap KindsListed # {}
        THEN LET first == CHOOSE k \in 1..Len(Preference) :
                     /\ Preference[k].kinds \cap KindsListed # {}
                     /\ \A j \in 1..(k - 1) : Preference[j].kinds \cap KindsListed = {}
             IN  category = Preference[first].label
        ELSE category = "other"

\* A list with a memory leak before a null-pointer dereference.
C13_Witness ==
    /\ cat_pc = "done"
    /\ Len(cat_bugs) = 2
    /\ cat_bugs[1].bug_type = "MEMORY_LEAK"
    /\ cat_bugs[2].bug_type = "NULLPTR_DEREFERENCE"
    /\ category = "nullptr_dereference"

-----------------------------------------------------------------------------
(* Anonymization as generate_jsonl performs it (lines 392-398)             *)

AnonInit ==
    /\ original_name \in Names
    /\ index \in 1..MaxIndex
    /\ code \in Codes(original_name)
    /\ anonymized_name = ""
    /\ anonymized_code = ""
    /\ an_pc = "start"
    /\ ScanIdle
    /\ FrsIdle
    /\ GenIdle
    /\ CatIdle
    /\ HfIdle
    /\ LoadIdle

AnonymizeName ==
    /\ an_pc = "start"
    /\ anonymized_name' = anonymize_function_name(original_name, index)
    /\ an_pc' = "named"
    /\ UNCHANGED <<original_name, index, code, anonymized_code, scanVars, frsVars, genVars, catVars, loadVars, hfVars>>

AnonymizeCode ==
    /\ an_pc = "named"
    /\ anonymized_code' =
           anonymize_function_code(code, original_name, anonymized_name)
    /\ an_pc' = "coded"
    /\ UNCHANGED <<original_name, index, code, anonymized_name, scanVars, frsVars, genVars, catVars, loadVars, hfVars>>

AnonNext == AnonymizeName \/ AnonymizeCode

SpecAnon == AnonInit /\ [][AnonNext]_vars

\* C9: the anonymized name is the original name less at most one prefix
\* (FP_ or FN_, removed when present) and, after that, at most one suffix
\* (_bad, _ok, _good or _latent, removed when the rest ends with it); when
\* nothing remains it is test_function_ followed by the index as three
\* zero-padded decimal digits.
C9_OnePrefixOneSuffix ==
    an_pc # "start" =>
        \E p \in {"", "FP_", "FN_"}, s \in {"", "_bad", "_ok", "_good", "_latent"} :
            LET rest == SubSeq(original_name, Len(p) + 1, Len(original_name))
                rem == SubSeq(rest, 1, Len(rest) - Len(s))
            IN  /\ StartsWith(original_name, p)
                /\ EndsWith(rest, s)
                /\ p = "" => \A q \in {"FP_", "FN_"} : ~StartsWith(original_name, q)
                /\ s = "" => \A t \in {"_bad", "_ok", "_good", "_latent"} : ~EndsWith(rest, t)
                /\ IF rem # ""
                   THEN anonymized_name = rem
                   ELSE /\ StartsWith(anonymized_name, "test_function_")
                        /\ Len(anonymized_name) = 17
                        /\ \A k \in 15..17 : Ch(anonymized_name, k) \in Digits
                        /\ Decimal(SubSeq(anonymized_name, 15, 17)) = index

\* A name with two hint suffixes has lost only the last one.
C9_Witness ==
    /\ an_pc = "named"
    /\ original_name = "x_bad_ok"
    /\ anonymized_name = "x_bad"

\* The end of the maximal run of characters of one kind (word or non-word)
\* that starts at p.
RunEnd(s, p) ==
    IF IsWordAt(s, p) THEN SkipClass(s, p, WordChars) - 1
    ELSE CHOOSE q \in p..Len(s) :
            /\ \A r \in p..q : ~IsWordAt(s, r)
            /\ (q = Len(s) \/ IsWordAt(s, q + 1))

\* text with every maximal identifier equal to name replaced by repl.
RECURSIVE RewriteWholeWords(_, _, _, _)
RewriteWholeWords(text, name, repl, p) ==
    IF p > Len(text) THEN ""
    ELSE LET q == RunEnd(text, p)
             tok == SubSeq(text, p, q)
         IN  (IF tok = name THEN repl ELSE tok)
                 \o RewriteWholeWords(text, name, repl, q + 1)

\* C10: the rewritten text is the function text with each identifier that
\* is exactly the original name replaced by the new name; every other
\* identifier (also one that contains the name) and every other character
\* is as it was.
C10_WholeWordRewrite ==
    an_pc = "coded" =>
        anonymized_code = RewriteWholeWords(code, original_name, anonymized_name, 1)

\* A text holding the name both as a whole word and inside a longer
\* identifier, rewritten.
C10_Witness ==
    /\ an_pc = "coded"
    /\ original_name = "x_bad"
    /\ code = "xx_bad(x_bad"
    /\ anonymized_code = "xx_bad(x"

\* A search for \b<name>\b in text succeeds.
FoundAsWord(text, name) ==
    \E p \in 1..Len(text) :
        /\ LitAt(text, p, name)
        /\ Boundary(text, p)
        /\ Boundary(text, p + Len(name))

HintPatterned(name) ==
    \/ StartsWith(name, "FP_") \/ StartsWith(name, "FN_")
    \/ \E k \in 1..Len(hint_suffixes) : EndsWith(name, hint_suffixes[k])

\* C11 as stated: for a name that matches no hint pattern and a text that
\* holds it as a whole word, after both steps the new name is found in the
\* rewritten text by word-boundary search and the original name is no
\* longer in it as a whole word.
C11_RoundTripUnhintedName ==
    (/\ an_pc = "coded"
     /\ original_name # ""
     /\ ~HintPatterned(original_name)
     /\ FoundAsWord(code, original_name))
    => /\ FoundAsWord(anonymized_code, anonymized_name)
       /\ ~FoundAsWord(anonymized_code, original_name)

\* C11: for every name and every text that holds it as a whole word, after
\* both steps the new name is found in the rewritten text by word-boundary
\* search; the original name is no longer in it as a whole word exactly
\* when the name matches a hint pattern, and a name that matches none is
\* its own new name and leaves the text as it was.
C11_RoundTrip ==
    (/\ an_pc = "coded"
     /\ original_name # ""
     /\ FoundAsWord(code, original_name))
    => /\ FoundAsWord(anonymized_code, anonymized_name)
       /\ HintPatterned(original_name) <=> ~FoundAsWord(anonymized_code, original_name)
       /\ ~HintPatterned(original_name) =>
              anonymized_name = original_name /\ anonymized_code = code

\* A text with two whole-word occurrences of a hinted name, rewritten.
C11_Witness ==
    /\ an_pc = "coded"
    /\ original_name = "FP_x_bad"
    /\ code = "FP_x_bad(FP_x_bad"
    /\ anonymized_name = "x"
    /\ anonymized_code = "x(x"

====
